---- MODULE Spec2Model ----
(***************************************************************************)
(* tinypixel: the double-buffered Viewport (src/src/viewport.rs) over      *)
(* PixelBuffer (src/src/pixel.rs).                                         *)
(*                                                                         *)
(* Buffers are sequences of pixels; the Rust index i is position i+1 of    *)
(* the sequence.  All u32 quantities of the model stay far below 2^32.     *)
(***************************************************************************)
EXTENDS Integers, Sequences, FiniteSets, TLC

\* ------------------------------------------------------------------------
\* Bounds of the model
\* ------------------------------------------------------------------------
\* calls other than pixels() made on one viewport
MaxOps == 2
\* pixels() calls made on one viewport
MaxFrames == 3
\* largest factor handed to scale()
MaxScale == 3
\* longest list handed to draw_pixels()
MaxList == 2
\* the driver loop is followed for this many iterations
MaxTicks == 3
\* at most this many window events are delivered in one iteration
MaxEvents == 2
\* a buffer used on its own holds at most this many pixels
MaxCap == 2

\* ------------------------------------------------------------------------
\* Pixel
\* ------------------------------------------------------------------------
Pixel(r, g, b, a) == [r |-> r, g |-> g, b |-> b, a |-> a]

Pixel_zero == Pixel(0, 0, 0, 0)

\* equality that compares the alpha channel only
Pixel_eq_alpha(p, q) == p.a = q.a

\* #[derive(PartialEq)] on Pixel: all four channels
Pixel_eq(p, q) == p.r = q.r /\ p.g = q.g /\ p.b = q.b /\ p.a = q.a

ScreenPos(x, y) == [x |-> x, y |-> y]

ScreenSize(w, h) == [width |-> w, height |-> h]

\* ------------------------------------------------------------------------
\* Inputs
\* ------------------------------------------------------------------------
Vis == Pixel(10, 20, 30, 255)

White == Pixel(255, 255, 255, 255)

\* alpha 0 with colour channels set: a legal Pixel value that is not Pixel::zero()
Ghost == Pixel(10, 20, 30, 0)

\* pixels handed to draw_pixel and fill
PixelSet == {Pixel_zero, Vis, Ghost}

\* sizes handed to new and resize
Sizes == {ScreenSize(2, 2), ScreenSize(3, 4)}

\* positions handed to new
Positions == {ScreenPos(0, 0), ScreenPos(2, 3)}

\* positions handed to draw_pixel: every cell of the view, and three outside it
DrawPositions(sz) ==
    {ScreenPos(x, y) : x \in 0..(sz.width - 1), y \in 0..(sz.height - 1)}
    \cup {ScreenPos(sz.width, 0), ScreenPos(0, sz.height), ScreenPos(sz.width, sz.height)}

\* entries of the lists handed to draw_pixels; (1, 2) is outside a 2x2 view
ListEntries ==
    { <<Vis, ScreenPos(0, 0)>>, <<White, ScreenPos(0, 0)>>, <<White, ScreenPos(1, 2)>> }

RECURSIVE ListsOfLen(_)
ListsOfLen(n) ==
    IF n = 0 THEN {<<>>}
    ELSE {<<e>> \o l : e \in ListEntries, l \in ListsOfLen(n - 1)}

Lists == UNION {ListsOfLen(n) : n \in 0..MaxList}

\* ------------------------------------------------------------------------
\* PixelBuffer
\* ------------------------------------------------------------------------
\* empty() filled with opaque black instead of Pixel::zero()
PixelBuffer_empty_opaque(cap) == [i \in 1..cap |-> Pixel(0, 0, 0, 255)]

PixelBuffer_empty(cap) == [i \in 1..cap |-> Pixel_zero]

\* a byte view with the channels in the order b, g, r, a
as_bytes_bgra(buf) ==
    [k \in 1..(4 * Len(buf)) |->
        LET p == buf[((k - 1) \div 4) + 1]
            c == (k - 1) % 4
        IN  IF c = 0 THEN p.b ELSE IF c = 1 THEN p.g ELSE IF c = 2 THEN p.r ELSE p.a]

\* Deref: bytemuck::cast_slice(&self.inner), 4 bytes per pixel in field order
as_bytes(buf) ==
    [k \in 1..(4 * Len(buf)) |->
        LET p == buf[((k - 1) \div 4) + 1]
            c == (k - 1) % 4
        IN  IF c = 0 THEN p.r ELSE IF c = 1 THEN p.g ELSE IF c = 2 THEN p.b ELSE p.a]

\* the pixels a byte slice is the view of
from_bytes(bytes) ==
    [i \in 1..(Len(bytes) \div 4) |->
        Pixel(bytes[4 * i - 3], bytes[4 * i - 2], bytes[4 * i - 1], bytes[4 * i])]

\* zero() that leaves the buffer as it is
PixelBuffer_zero_noop(buf) == buf

\* PixelBuffer::zero: cast_slice_mut(&mut self.inner).fill(0)
\* zero() that clears the alpha channel only
PixelBuffer_zero_alpha(buf) == [i \in 1..Len(buf) |-> Pixel(buf[i].r, buf[i].g, buf[i].b, 0)]

PixelBuffer_zero(buf) == from_bytes([k \in 1..Len(as_bytes(buf)) |-> 0])

\* the bounds check of self.inner[index]
in_bounds(buf, index) == index >= 0 /\ index < Len(buf)

\* PixelBuffer::set_pixel on an index that passes the bounds check
set_pixel(buf, index, pixel) == [buf EXCEPT ![index + 1] = pixel]

\* ------------------------------------------------------------------------
\* Viewport: pure parts
\* ------------------------------------------------------------------------
\* in_view with <= for <
in_view_le(sz, pos) == pos.x <= sz.width /\ pos.y <= sz.height

in_view(sz, pos) == pos.x < sz.width /\ pos.y < sz.height

\* offset with the two coordinates of the origin exchanged
offset_swapped(origin, pos) == ScreenPos(pos.x + origin.y, pos.y + origin.x)

offset(origin, pos) == ScreenPos(pos.x + origin.x, pos.y + origin.y)

\* index_to_coords dividing by the height
index_to_coords_height(sz, index) == ScreenPos(index % sz.height, index \div sz.height)

index_to_coords(sz, index) == ScreenPos(index % sz.width, index \div sz.width)

\* the index draw_pixel computes for the block cell (x, y)
block_index(sz, pos, x, y) == sz.width * (pos.y + y) + pos.x + x

\* The two nested loops of draw_pixel from step k on (x = k div s outer,
\* y = k mod s inner).  set_pixel panics at the first index out of bounds: the
\* writes made before it stay and the rest of the loop does not run.
\* A result is the buffer, whether set_pixel panicked, and the indices written.
RECURSIVE draw_loop(_, _, _, _, _, _, _)
draw_loop(buf, sz, s, pixel, pos, k, hits) ==
    IF k >= s * s THEN [buf |-> buf, fault |-> FALSE, hits |-> hits]
    ELSE LET index == block_index(sz, pos, k \div s, k % s)
         IN  IF in_bounds(buf, index)
             THEN draw_loop(set_pixel(buf, index, pixel), sz, s, pixel, pos, k + 1,
                            hits \cup {index})
             ELSE [buf |-> buf, fault |-> TRUE, hits |-> hits]

draw_pixel(buf, sz, s, pixel, pos) ==
    IF in_view(sz, pos)
    THEN draw_loop(buf, sz, s, pixel, pos, 0, {})
    ELSE [buf |-> buf, fault |-> FALSE, hits |-> {}]

\* draw_pixels going through the list last entry first
RECURSIVE draw_pixels_rev(_, _, _, _)
draw_pixels_rev(buf, sz, s, list) ==
    IF list = <<>> THEN [buf |-> buf, fault |-> FALSE, hits |-> {}]
    ELSE LET n == Len(list)
             r == draw_pixel(buf, sz, s, list[n][1], list[n][2])
         IN  IF r.fault THEN r
             ELSE LET t == draw_pixels_rev(r.buf, sz, s, SubSeq(list, 1, n - 1))
                  IN  [t EXCEPT !.hits = r.hits \cup t.hits]

\* draw_pixels: draw_pixel per entry in list order; a panic ends the iteration
RECURSIVE draw_pixels(_, _, _, _)
draw_pixels(buf, sz, s, list) ==
    IF list = <<>> THEN [buf |-> buf, fault |-> FALSE, hits |-> {}]
    ELSE LET r == draw_pixel(buf, sz, s, list[1][1], list[1][2])
         IN  IF r.fault THEN r
             ELSE LET t == draw_pixels(r.buf, sz, s, Tail(list))
                  IN  [t EXCEPT !.hits = r.hits \cup t.hits]

\* fill that leaves the first cell out
fill_from_one(buf, pixel) == [i \in 1..Len(buf) |-> IF i = 1 THEN buf[i] ELSE pixel]

fill(buf, pixel) == [i \in 1..Len(buf) |-> pixel]

\* pixels() without the erase arm: an erased cell is never reported
diff_entry_noerase(origin, sz, index, new, old) ==
    IF Pixel_eq(new, old) \/ new.a = 0 THEN <<>>
    ELSE << <<new, offset(origin, index_to_coords(sz, index))>> >>

\* pixels() pushing the old pixel, not Pixel::zero(), in the erase arm
diff_entry_old(origin, sz, index, new, old) ==
    IF Pixel_eq(new, old) THEN <<>>
    ELSE IF new.a = 0
         THEN IF old.a > 0
              THEN << <<old, offset(origin, index_to_coords(sz, index))>> >>
              ELSE <<>>
         ELSE << <<new, offset(origin, index_to_coords(sz, index))>> >>

\* one arm-matched pair of pixels(): what is pushed for index
diff_entry(origin, sz, index, new, old) ==
    IF Pixel_eq(new, old) THEN <<>>
    ELSE IF new.a = 0
         THEN IF old.a > 0
              THEN << <<Pixel_zero, offset(origin, index_to_coords(sz, index))>> >>
              ELSE <<>>
         ELSE << <<new, offset(origin, index_to_coords(sz, index))>> >>

\* the loop of pixels() collecting the changes last index first
RECURSIVE diff_from_rev(_, _, _, _, _)
diff_from_rev(origin, sz, nb, ob, index) ==
    IF index >= Len(nb) \/ index >= Len(ob) THEN <<>>
    ELSE diff_from_rev(origin, sz, nb, ob, index + 1)
         \o diff_entry(origin, sz, index, nb[index + 1], ob[index + 1])

\* the loop of pixels() from index on; zip ends with the shorter buffer
RECURSIVE diff_from(_, _, _, _, _)
diff_from(origin, sz, nb, ob, index) ==
    IF index >= Len(nb) \/ index >= Len(ob) THEN <<>>
    ELSE diff_entry(origin, sz, index, nb[index + 1], ob[index + 1])
         \o diff_from(origin, sz, nb, ob, index + 1)

\* ------------------------------------------------------------------------
\* Renderer: the pixel buffer that is uploaded, and the surface size
\* ------------------------------------------------------------------------
PixelBuffer_new(cap, pixel) == [i \in 1..cap |-> pixel]

Renderer_new(window_size) ==
    [size |-> window_size,
     pixels |-> PixelBuffer_new(window_size.width * window_size.height, Pixel_zero)]

\* Renderer::resize: a new buffer, and State::resize takes the size
Renderer_resize(r, new_size) ==
    [size |-> new_size,
     pixels |-> PixelBuffer_new(new_size.width * new_size.height, Pixel_zero)]

\* coords_to_index taking the height for the row length
coords_to_index_height(r, pos) == pos.x + pos.y * r.size.height

coords_to_index(r, pos) == pos.x + pos.y * r.size.width

\* the for_each of Renderer::draw from change k on: a change whose index is
\* inside the buffer is stored, any other is dropped
RECURSIVE Renderer_store(_, _, _)
Renderer_store(r, changes, k) ==
    IF k > Len(changes) THEN r
    ELSE LET index == coords_to_index(r, changes[k][2])
             stored == IF index < Len(r.pixels)
                       THEN [r EXCEPT !.pixels[index + 1] = changes[k][1]]
                       ELSE r
         IN  Renderer_store(stored, changes, k + 1)

\* ------------------------------------------------------------------------
\* State
\* ------------------------------------------------------------------------
VARIABLES
    position,       \* Viewport.position
    size,           \* Viewport.size
    new_buf,        \* Viewport.new_buf
    old_buf,        \* Viewport.old_buf
    scale_factor,   \* Viewport.scale_factor
    fault,          \* a set_pixel index was out of bounds: the thread panicked
    ret,            \* what the most recent call returned (<<>> for unit)
    calls,          \* the calls made on the viewport since new, oldest first
    drawn,          \* the indices of new_buf written since the frame began
    renderer,       \* the Renderer of start: state.size and pixels
    phase,          \* where the event loop is in its iteration
    control_flow,   \* *control_flow of the closure of start
    redraw_requested, \* window.request_redraw() is pending
    dispatched,     \* window events delivered in this iteration
    tick_log,       \* callbacks and render calls of this iteration, in order
    ticks,          \* iterations completed
    buffer          \* PixelBuffer.inner of a buffer used on its own

vars == <<position, size, new_buf, old_buf, scale_factor, fault, ret, calls, drawn,
          renderer, phase, control_flow, redraw_requested, dispatched, tick_log, ticks,
          buffer>>

\* the viewport and what is recorded about its calls
canvas == <<position, size, new_buf, old_buf, scale_factor, fault, ret, calls, drawn>>

\* the event loop of start
driver == <<phase, control_flow, redraw_requested, dispatched, tick_log, ticks>>

Count(name) == Cardinality({i \in 1..Len(calls) : calls[i][1] = name})

Ops == Len(calls) - Count("pixels")

CanCall == ~fault /\ Ops < MaxOps

\* Viewport::new
Viewport_new(origin, sz) ==
    /\ position = origin
    /\ size = sz
    /\ new_buf = PixelBuffer_empty(size.width * size.height)
    /\ old_buf = PixelBuffer_empty(size.width * size.height)
    /\ scale_factor = 1
    /\ fault = FALSE
    /\ ret = <<>>
    /\ calls = <<>>
    /\ drawn = {}

\* the loop of start before its first event
Loop_idle ==
    /\ phase = "events"
    /\ control_flow = "Poll"
    /\ redraw_requested = FALSE
    /\ dispatched = 0
    /\ tick_log = <<>>
    /\ ticks = 0

\* a viewport on its own: start is not running and there is no surface
Init ==
    /\ \E origin \in Positions : \E sz \in Sizes : Viewport_new(origin, sz)
    /\ renderer = Renderer_new(ScreenSize(0, 0))
    /\ Loop_idle
    /\ buffer = PixelBuffer_empty(0)

\* resize that reallocates new_buf only
Resize_keep_old(new_size) ==
    /\ CanCall
    /\ size' = ScreenSize(new_size.width, new_size.height)
    /\ new_buf' = PixelBuffer_empty(new_size.width * new_size.height)
    /\ ret' = <<>>
    /\ calls' = Append(calls, <<"resize", new_size>>)
    /\ drawn' = {}
    /\ UNCHANGED <<position, old_buf, scale_factor, fault>>
    /\ UNCHANGED <<renderer, driver, buffer>>

\* resize that takes width * width for the capacity
Resize_square(new_size) ==
    /\ CanCall
    /\ size' = ScreenSize(new_size.width, new_size.height)
    /\ new_buf' = PixelBuffer_empty(new_size.width * new_size.width)
    /\ old_buf' = PixelBuffer_empty(new_size.width * new_size.width)
    /\ ret' = <<>>
    /\ calls' = Append(calls, <<"resize", new_size>>)
    /\ drawn' = {}
    /\ UNCHANGED <<position, scale_factor, fault>>
    /\ UNCHANGED <<renderer, driver, buffer>>

\* Viewport::resize
Viewport_resize(new_size) ==
    /\ CanCall
    /\ size' = ScreenSize(new_size.width, new_size.height)
    /\ new_buf' = PixelBuffer_empty(new_size.width * new_size.height)
    /\ old_buf' = PixelBuffer_empty(new_size.width * new_size.height)
    /\ ret' = <<>>
    /\ calls' = Append(calls, <<"resize", new_size>>)
    /\ drawn' = {}
    /\ UNCHANGED <<position, scale_factor, fault>>

Resize(new_size) == Viewport_resize(new_size) /\ UNCHANGED <<renderer, driver, buffer>>

DrawPixels(list) ==
    /\ CanCall
    /\ LET r == draw_pixels(new_buf, size, scale_factor, list)
       IN  new_buf' = r.buf /\ fault' = r.fault /\ drawn' = drawn \cup r.hits
    /\ ret' = <<>>
    /\ calls' = Append(calls, <<"draw_pixels", list>>)
    /\ UNCHANGED <<position, size, old_buf, scale_factor>>
    /\ UNCHANGED <<renderer, driver, buffer>>

DrawPixel(pixel, pos) ==
    /\ CanCall
    /\ LET r == draw_pixel(new_buf, size, scale_factor, pixel, pos)
       IN  new_buf' = r.buf /\ fault' = r.fault /\ drawn' = drawn \cup r.hits
    /\ ret' = <<>>
    /\ calls' = Append(calls, <<"draw_pixel", pixel, pos>>)
    /\ UNCHANGED <<position, size, old_buf, scale_factor>>
    /\ UNCHANGED <<renderer, driver, buffer>>

Fill(pixel) ==
    /\ CanCall
    /\ new_buf' = fill(new_buf, pixel)
    /\ ret' = <<>>
    /\ calls' = Append(calls, <<"fill", pixel>>)
    /\ drawn' = {i \in 0..(Len(new_buf) - 1) : TRUE}
    /\ UNCHANGED <<position, size, old_buf, scale_factor, fault>>
    /\ UNCHANGED <<renderer, driver, buffer>>

\* scale that also throws the frame drawn so far away
Scale_clears(factor) ==
    /\ CanCall
    /\ scale_factor' = factor
    /\ new_buf' = PixelBuffer_empty(Len(new_buf))
    /\ ret' = <<>>
    /\ calls' = Append(calls, <<"scale", factor>>)
    /\ UNCHANGED <<position, size, old_buf, fault, drawn>>
    /\ UNCHANGED <<renderer, driver, buffer>>

Scale(factor) ==
    /\ CanCall
    /\ scale_factor' = factor
    /\ ret' = <<>>
    /\ calls' = Append(calls, <<"scale", factor>>)
    /\ UNCHANGED <<position, size, new_buf, old_buf, fault, drawn>>
    /\ UNCHANGED <<renderer, driver, buffer>>

\* pixels() that zeroes new_buf without the swap
Pixels_noswap ==
    /\ ~fault
    /\ Count("pixels") < MaxFrames
    /\ ret' = diff_from(position, size, new_buf, old_buf, 0)
    /\ new_buf' = PixelBuffer_zero(new_buf)
    /\ calls' = Append(calls, <<"pixels">>)
    /\ drawn' = {}
    /\ UNCHANGED <<position, size, old_buf, scale_factor, fault>>
    /\ UNCHANGED <<renderer, driver, buffer>>

\* pixels() that swaps the buffers and leaves out new_buf.zero()
Pixels_noclear ==
    /\ ~fault
    /\ Count("pixels") < MaxFrames
    /\ ret' = diff_from(position, size, new_buf, old_buf, 0)
    /\ old_buf' = new_buf
    /\ new_buf' = old_buf
    /\ calls' = Append(calls, <<"pixels">>)
    /\ drawn' = {}
    /\ UNCHANGED <<position, size, scale_factor, fault>>
    /\ UNCHANGED <<renderer, driver, buffer>>

\* Viewport::pixels: the diff, then swap and zero
Viewport_pixels ==
    /\ ~fault
    /\ Count("pixels") < MaxFrames
    /\ ret' = diff_from(position, size, new_buf, old_buf, 0)
    /\ old_buf' = new_buf
    /\ new_buf' = PixelBuffer_zero(old_buf)
    /\ calls' = Append(calls, <<"pixels">>)
    /\ drawn' = {}
    /\ UNCHANGED <<position, size, scale_factor, fault>>

Pixels == Viewport_pixels /\ UNCHANGED <<renderer, driver, buffer>>

Next ==
    \/ \E s \in Sizes : Resize(s)
    \/ \E l \in Lists : DrawPixels(l)
    \/ \E p \in PixelSet : \E pos \in DrawPositions(size) : DrawPixel(p, pos)
    \/ \E p \in PixelSet : Fill(p)
    \/ \E f \in 0..MaxScale : Scale(f)
    \/ Pixels

Spec == Init /\ [][Next]_vars

\* ------------------------------------------------------------------------
\* The viewport drawn through a Renderer
\* ------------------------------------------------------------------------
\* Renderer::draw: viewport.pixels(), every change stored at its index
Renderer_draw ==
    /\ Viewport_pixels
    /\ renderer' = Renderer_store(renderer, ret', 1)
    /\ UNCHANGED <<driver, buffer>>

\* the Resized arm of start with the el.resize of main.rs: the viewport is
\* resized, then the renderer
Resized(new_size) ==
    /\ Viewport_resize(new_size)
    /\ renderer' = Renderer_resize(renderer, new_size)
    /\ UNCHANGED <<driver, buffer>>

\* Viewport::new and Renderer::new, each with a size of its own
SinkInit ==
    /\ \E origin \in Positions : \E sz \in Sizes : Viewport_new(origin, sz)
    /\ \E window_size \in Sizes : renderer = Renderer_new(window_size)
    /\ Loop_idle
    /\ buffer = PixelBuffer_empty(0)

SinkNext ==
    \/ \E s \in Sizes : Resized(s)
    \/ \E l \in Lists : DrawPixels(l)
    \/ \E p \in PixelSet : \E pos \in DrawPositions(size) : DrawPixel(p, pos)
    \/ \E p \in PixelSet : Fill(p)
    \/ \E f \in 0..MaxScale : Scale(f)
    \/ Renderer_draw

SpecSink == SinkInit /\ [][SinkNext]_vars

\* ------------------------------------------------------------------------
\* The event loop of start. One iteration of the winit loop delivers the
\* window events, then MainEventsCleared, then RedrawRequested if a redraw is
\* pending, then RedrawEventsCleared. The callbacks of el are recorded, not
\* followed.
\* ------------------------------------------------------------------------
Keys == {"Escape", "H"}

ElementStates == {"Pressed", "Released"}

Running == phase # "exited" /\ ticks < MaxTicks

CanDeliver == Running /\ phase = "events" /\ dispatched < MaxEvents

\* RedrawRequested: el.draw(&mut renderer)
OnRedrawRequested ==
    /\ Running
    /\ phase = "redraw"
    /\ redraw_requested
    /\ tick_log' = Append(tick_log, "draw")
    /\ redraw_requested' = FALSE
    /\ UNCHANGED <<buffer, canvas, renderer, phase, control_flow, dispatched, ticks>>

\* MainEventsCleared: el.update(); renderer.render(); window.request_redraw()
OnMainEventsCleared ==
    /\ Running
    /\ phase = "events"
    /\ tick_log' = tick_log \o <<"update", "render">>
    /\ redraw_requested' = TRUE
    /\ phase' = "redraw"
    /\ UNCHANGED <<buffer, canvas, renderer, control_flow, dispatched, ticks>>

\* WindowEvent::Resized: el.resize(..); renderer.resize(..)
OnResized(physical_size) ==
    /\ CanDeliver
    /\ tick_log' = Append(tick_log, "resize")
    /\ renderer' = Renderer_resize(renderer, physical_size)
    /\ dispatched' = dispatched + 1
    /\ UNCHANGED <<buffer, canvas, phase, control_flow, redraw_requested, ticks>>

\* WindowEvent::ScaleFactorChanged: el.resize(..); renderer.resize(..)
OnScaleFactorChanged(new_inner_size) ==
    /\ CanDeliver
    /\ tick_log' = Append(tick_log, "resize")
    /\ renderer' = Renderer_resize(renderer, new_inner_size)
    /\ dispatched' = dispatched + 1
    /\ UNCHANGED <<buffer, canvas, phase, control_flow, redraw_requested, ticks>>

\* WindowEvent::KeyboardInput: el.input(..); Escape pressed sets Exit
OnKeyboardInput(key, state) ==
    /\ CanDeliver
    /\ tick_log' = Append(tick_log, "input")
    /\ control_flow' = IF state = "Pressed" /\ key = "Escape" THEN "Exit" ELSE control_flow
    /\ dispatched' = dispatched + 1
    /\ UNCHANGED <<buffer, canvas, renderer, phase, redraw_requested, ticks>>

\* any other window event: the arm _ => {}
OnOtherEvent ==
    /\ CanDeliver
    /\ dispatched' = dispatched + 1
    /\ UNCHANGED <<buffer, canvas, renderer, phase, control_flow, redraw_requested, tick_log, ticks>>

\* RedrawEventsCleared, the arm _ => {}: the iteration is over, and the loop
\* stops if the closure has set Exit
OnRedrawEventsCleared ==
    /\ Running
    /\ phase = "redraw"
    /\ ~redraw_requested
    /\ phase' = IF control_flow = "Exit" THEN "exited" ELSE "events"
    /\ ticks' = ticks + 1
    /\ tick_log' = <<>>
    /\ dispatched' = 0
    /\ UNCHANGED <<buffer, canvas, renderer, control_flow, redraw_requested>>

\* main and the head of start: the viewport and the renderer take the inner
\* size of the window
LoopInit ==
    /\ \E window_size \in Sizes :
          /\ Viewport_new(ScreenPos(0, 0), window_size)
          /\ renderer = Renderer_new(window_size)
    /\ Loop_idle
    /\ buffer = PixelBuffer_empty(0)

LoopNext ==
    \/ OnRedrawRequested
    \/ OnMainEventsCleared
    \/ \E s \in Sizes : OnResized(s)
    \/ \E s \in Sizes : OnScaleFactorChanged(s)
    \/ \E k \in Keys : \E st \in ElementStates : OnKeyboardInput(k, st)
    \/ OnOtherEvent
    \/ OnRedrawEventsCleared

SpecLoop == LoopInit /\ [][LoopNext]_vars

\* ------------------------------------------------------------------------
\* A PixelBuffer used on its own: set_pixel, writes through the byte view
\* and zero
\* ------------------------------------------------------------------------
\* the values a byte is written with
ByteValues == {0, 255}

\* what stays as it is when the buffer is used
BufferFrame ==
    UNCHANGED <<position, size, new_buf, old_buf, scale_factor, ret, calls, drawn,
                renderer, driver>>

\* PixelBuffer::set_pixel: self.inner[index] = pixel, a panic out of bounds
Buffer_set_pixel(index, pixel) ==
    /\ ~fault
    /\ IF in_bounds(buffer, index)
       THEN buffer' = set_pixel(buffer, index, pixel) /\ fault' = FALSE
       ELSE buffer' = buffer /\ fault' = TRUE
    /\ BufferFrame

\* DerefMut: byte k of the view is written, a panic out of bounds
Buffer_write_byte(k, v) ==
    /\ ~fault
    /\ IF k < Len(as_bytes(buffer))
       THEN buffer' = from_bytes([as_bytes(buffer) EXCEPT ![k + 1] = v]) /\ fault' = FALSE
       ELSE buffer' = buffer /\ fault' = TRUE
    /\ BufferFrame

\* PixelBuffer::zero
Buffer_zero ==
    /\ ~fault
    /\ buffer' = PixelBuffer_zero(buffer)
    /\ fault' = FALSE
    /\ BufferFrame

\* PixelBuffer::new with a capacity and a pixel
BufferInit ==
    /\ \E cap \in 0..MaxCap : \E p \in PixelSet : buffer = PixelBuffer_new(cap, p)
    /\ Viewport_new(ScreenPos(0, 0), ScreenSize(0, 0))
    /\ renderer = Renderer_new(ScreenSize(0, 0))
    /\ Loop_idle

BufferNext ==
    \/ \E index \in 0..MaxCap : \E p \in PixelSet : Buffer_set_pixel(index, p)
    \/ \E k \in 0..(4 * MaxCap) : \E v \in ByteValues : Buffer_write_byte(k, v)
    \/ Buffer_zero

SpecBuffer == BufferInit /\ [][BufferNext]_vars

\* ------------------------------------------------------------------------
\* Types
\* ------------------------------------------------------------------------
TypeOK ==
    /\ position \in Positions
    /\ size \in Sizes \cup {ScreenSize(0, 0)}
    /\ scale_factor \in 0..MaxScale
    /\ fault \in BOOLEAN
    /\ \A i \in 1..Len(new_buf) : new_buf[i] \in PixelSet \cup {White}
    /\ \A i \in 1..Len(old_buf) : old_buf[i] \in PixelSet \cup {White}
    /\ drawn \subseteq 0..(Len(new_buf) - 1)
    /\ renderer.size \in Sizes \cup {ScreenSize(0, 0)}
    /\ Len(renderer.pixels) = renderer.size.width * renderer.size.height
    /\ \A i \in 1..Len(renderer.pixels) : renderer.pixels[i] \in PixelSet \cup {White}
    /\ phase \in {"events", "redraw", "exited"}
    /\ control_flow \in {"Poll", "Exit"}
    /\ redraw_requested \in BOOLEAN
    /\ dispatched \in 0..MaxEvents
    /\ ticks \in 0..MaxTicks
    /\ Len(buffer) \in 0..MaxCap

\* ------------------------------------------------------------------------
\* Properties
\* ------------------------------------------------------------------------
NCalls == Len(calls)

\* the call made k calls ago (0: the most recent)
Recent(k) == calls[NCalls - k]

IsPixelsStep == calls' = Append(calls, <<"pixels">>)

\* the screen position of the cell with linear index i
CellPos(i) == ScreenPos((i % size.width) + position.x, (i \div size.width) + position.y)

\* the linear index of the cell at a screen position
CellIndex(pos) == (pos.y - position.y) * size.width + (pos.x - position.x)

InsideView(pos) == pos.x < size.width /\ pos.y < size.height

\* the cells of a buffer that hold a visible pixel
VisibleCells(buf) == {i \in 0..(Len(buf) - 1) : buf[i + 1].a > 0}

\* C1: on a fresh viewport (scale_factor 1), one draw_pixel of a visible
\* pixel p at an in-view (x, y) followed by pixels() returns exactly
\* [(p, (x + position.x, y + position.y))].
C1_SinglePixelRoundTrip ==
    (/\ NCalls = 2
     /\ calls[1][1] = "draw_pixel"
     /\ calls[2][1] = "pixels"
     /\ calls[1][2].a > 0
     /\ InsideView(calls[1][3]))
    => ret = << <<calls[1][2],
                  ScreenPos(calls[1][3].x + position.x, calls[1][3].y + position.y)>> >>

C1_Witness ==
    /\ NCalls = 2
    /\ calls[1] = <<"draw_pixel", Vis, ScreenPos(2, 2)>>
    /\ calls[2][1] = "pixels"
    /\ position = ScreenPos(2, 3)
    /\ ret = << <<Vis, ScreenPos(4, 5)>> >>

\* C2: when pixels() is called, a cell that was visible (a > 0) in the frame
\* taken by the previous pixels() and that nothing was drawn at since is
\* reported exactly once, as the erased pixel (0,0,0,0) at the cell's screen
\* position.
C2_EraseDetection ==
    [][IsPixelsStep =>
        \A i \in 0..(Len(old_buf) - 1) :
            (old_buf[i + 1].a > 0 /\ i \notin drawn) =>
                /\ Cardinality({k \in 1..Len(ret') : ret'[k][2] = CellPos(i)}) = 1
                /\ \E k \in 1..Len(ret') : ret'[k] = <<Pixel_zero, CellPos(i)>>]_vars

C2_Witness ==
    /\ NCalls = 4
    /\ calls[1] = <<"draw_pixel", Vis, ScreenPos(1, 1)>>
    /\ calls[2][1] = "pixels"
    /\ calls[3] = <<"draw_pixel", Vis, ScreenPos(0, 0)>>
    /\ calls[4][1] = "pixels"
    /\ ret = << <<Vis, offset(position, ScreenPos(0, 0))>>,
                <<Pixel_zero, offset(position, ScreenPos(1, 1))>> >>

\* C3 as stated: the second of two pixels() calls in a row returns the empty
\* list.
C3_Original ==
    (NCalls >= 2 /\ Recent(0)[1] = "pixels" /\ Recent(1)[1] = "pixels") => ret = <<>>

\* C3 as amended: the second of two pixels() calls in a row returns exactly
\* one erase change (0,0,0,0) for each cell that is visible (a > 0) in the
\* frame the first call took, and nothing else; it is empty exactly when
\* that frame has no visible cell.
C3_SecondDiffErasesOnly ==
    [][(IsPixelsStep /\ NCalls >= 1 /\ Recent(0)[1] = "pixels") =>
        /\ Len(ret') = Cardinality(VisibleCells(old_buf))
        /\ {ret'[k] : k \in 1..Len(ret')}
             = {<<Pixel_zero, CellPos(i)>> : i \in VisibleCells(old_buf)}
        /\ (ret' = <<>>) <=> (VisibleCells(old_buf) = {})]_vars

C3_Witness ==
    /\ NCalls = 3
    /\ calls[1] = <<"draw_pixel", Vis, ScreenPos(1, 0)>>
    /\ calls[2][1] = "pixels"
    /\ calls[3][1] = "pixels"
    /\ ret = << <<Pixel_zero, offset(position, ScreenPos(1, 0))>> >>

\* C4: when the same pixel is drawn at the same in-view position in two
\* consecutive frames (draw_pixel, pixels, draw_pixel, pixels), the second
\* pixels() reports no change for that position.
C4_EqualitySuppression ==
    (/\ NCalls >= 4
     /\ Recent(0)[1] = "pixels"
     /\ Recent(1)[1] = "draw_pixel"
     /\ Recent(2)[1] = "pixels"
     /\ Recent(3) = Recent(1)
     /\ InsideView(Recent(1)[3]))
    => \A k \in 1..Len(ret) :
          ret[k][2] # ScreenPos(Recent(1)[3].x + position.x, Recent(1)[3].y + position.y)

C4_Witness ==
    /\ NCalls = 4
    /\ calls[1] = <<"draw_pixel", Vis, ScreenPos(1, 1)>>
    /\ calls[2][1] = "pixels"
    /\ calls[3] = <<"draw_pixel", Vis, ScreenPos(1, 1)>>
    /\ calls[4][1] = "pixels"
    /\ ret = <<>>

\* C5: the list pixels() returns is in strictly ascending linear-index order
\* (index = y * width + x of the local cell), whatever the order of the draw
\* calls.
C5_AscendingOrder ==
    \A k \in 1..Len(ret) : \A l \in 1..Len(ret) :
        k < l => CellIndex(ret[k][2]) < CellIndex(ret[l][2])

C5_Witness ==
    /\ NCalls = 3
    /\ size.width = 3
    /\ calls[1] = <<"draw_pixel", Vis, ScreenPos(0, 1)>>
    /\ calls[2] = <<"draw_pixel", Vis, ScreenPos(2, 0)>>
    /\ calls[3][1] = "pixels"
    /\ ret = << <<Vis, offset(position, ScreenPos(2, 0))>>,
                <<Vis, offset(position, ScreenPos(0, 1))>> >>

\* C6: after scale(3) on a fresh viewport, one draw_pixel of a visible pixel
\* p at any in-view position pos does not panic, and the first pixels()
\* reports p at exactly the 9 cells (pos.x + dx, pos.y + dy), dx, dy in 0..2,
\* translated by the viewport's position.
C6_ScaleExpansion ==
    (/\ NCalls \in {2, 3}
     /\ calls[1] = <<"scale", 3>>
     /\ calls[2][1] = "draw_pixel"
     /\ calls[2][2].a > 0
     /\ InsideView(calls[2][3])
     /\ NCalls = 3 => calls[3][1] = "pixels")
    => /\ ~fault
       /\ NCalls = 3 =>
            /\ Len(ret) = 9
            /\ {ret[k] : k \in 1..Len(ret)}
                 = { <<calls[2][2], ScreenPos(calls[2][3].x + dx + position.x,
                                              calls[2][3].y + dy + position.y)>>
                       : dx \in 0..2, dy \in 0..2 }

\* C7: after resize(new_size) both buffers have length width * height of
\* new_size and hold only the erased pixel, and a pixels() that follows the
\* resize with no draw in between returns the empty list.
C7_ResizeDiscards ==
    /\ (NCalls >= 1 /\ Recent(0)[1] = "resize") =>
          /\ Len(new_buf) = Recent(0)[2].width * Recent(0)[2].height
          /\ Len(old_buf) = Recent(0)[2].width * Recent(0)[2].height
          /\ \A i \in 1..Len(new_buf) : new_buf[i] = Pixel_zero
          /\ \A i \in 1..Len(old_buf) : old_buf[i] = Pixel_zero
    /\ (NCalls >= 2 /\ Recent(0)[1] = "pixels" /\ Recent(1)[1] = "resize") => ret = <<>>

C7_Witness ==
    /\ NCalls = 4
    /\ calls[1] = <<"draw_pixel", Vis, ScreenPos(1, 1)>>
    /\ calls[2][1] = "pixels"
    /\ calls[3] = <<"resize", ScreenSize(3, 4)>>
    /\ calls[4][1] = "pixels"
    /\ Len(old_buf) = 12
    /\ ret = <<>>

\* C8: no index handed to set_pixel by draw_pixel or draw_pixels is out of
\* bounds: the panic of self.inner[index] is unreachable.
C8_NoOutOfBounds == ~fault

\* C9: a draw_pixel whose position has x >= size.width or y >= size.height
\* does not panic and leaves new_buf, old_buf, size, position and
\* scale_factor as they were, whatever the scale_factor.
C9_OutOfViewClip ==
    [][(/\ Len(calls') = NCalls + 1
        /\ calls'[NCalls + 1][1] = "draw_pixel"
        /\ (calls'[NCalls + 1][3].x >= size.width \/ calls'[NCalls + 1][3].y >= size.height))
       => /\ ~fault'
          /\ new_buf' = new_buf
          /\ old_buf' = old_buf
          /\ size' = size
          /\ position' = position
          /\ scale_factor' = scale_factor]_vars

C9_Witness ==
    /\ NCalls = 2
    /\ calls[1] = <<"scale", 3>>
    /\ calls[2] = <<"draw_pixel", Vis, ScreenPos(0, size.height)>>
    /\ ~fault
    /\ new_buf = PixelBuffer_empty(size.width * size.height)

\* C10: in every reachable state both buffers have length
\* size.width * size.height.
C10_BufferLengths ==
    /\ Len(new_buf) = size.width * size.height
    /\ Len(old_buf) = size.width * size.height

C10_Witness ==
    /\ NCalls = 3
    /\ calls[1] = <<"resize", ScreenSize(3, 4)>>
    /\ calls[2] = <<"fill", Vis>>
    /\ calls[3][1] = "pixels"
    /\ Len(ret) = 12
    /\ Len(new_buf) = 12
    /\ Len(old_buf) = 12

\* the step is a call of the named method
IsStepOf(name) == Len(calls') = NCalls + 1 /\ calls'[NCalls + 1][1] = name

\* the arguments of the call the step makes
StepArg(k) == calls'[NCalls + 1][k]

\* draw_pixel called on the entries of a list one after the other, from entry
\* k on, until one panics
RECURSIVE OneByOne(_, _, _)
OneByOne(r, list, k) ==
    IF k > Len(list) \/ r.fault THEN r
    ELSE OneByOne(draw_pixel(r.buf, size, scale_factor, list[k][1], list[k][2]), list, k + 1)

\* C11: draw_pixels(list) leaves the viewport as draw_pixel called once per
\* entry in list order does, and at scale_factor 1 a cell targeted by several
\* entries holds the pixel of the last of them.
C11_DrawPixelsInOrder ==
    [][IsStepOf("draw_pixels") =>
        LET list == StepArg(2)
            r == OneByOne([buf |-> new_buf, fault |-> FALSE], list, 1)
        IN  /\ new_buf' = r.buf
            /\ fault' = r.fault
            /\ UNCHANGED <<position, size, old_buf, scale_factor>>
            /\ scale_factor = 1 =>
                 \A k \in 1..Len(list) :
                    (/\ InsideView(list[k][2])
                     /\ \A j \in (k + 1)..Len(list) : list[j][2] # list[k][2])
                    => new_buf'[list[k][2].y * size.width + list[k][2].x + 1] = list[k][1]]_vars

C11_Witness ==
    /\ NCalls = 1
    /\ calls[1] = <<"draw_pixels", << <<Vis, ScreenPos(0, 0)>>, <<White, ScreenPos(0, 0)>> >> >>
    /\ new_buf[1] = White
    /\ ~fault

\* the screen positions of a list of changes
ChangedAt(list) == {list[k][2] : k \in 1..Len(list)}

\* C12 as stated: fill(pixel) sets every cell of new_buf to pixel and leaves
\* old_buf, size, position and scale_factor alone; the next pixels() reports
\* a change at exactly the cells whose previous-frame pixel differs from pixel.
C12_Original ==
    [][/\ IsStepOf("fill") =>
            /\ new_buf' = [i \in 1..Len(new_buf) |-> StepArg(2)]
            /\ UNCHANGED <<position, size, old_buf, scale_factor>>
       /\ (IsPixelsStep /\ NCalls >= 1 /\ Recent(0)[1] = "fill") =>
            /\ ChangedAt(ret')
                 = {CellPos(i) : i \in {j \in 0..(Len(old_buf) - 1) : old_buf[j + 1] # Recent(0)[2]}}
            /\ Len(ret') = Cardinality(ChangedAt(ret'))]_vars

\* C12 as amended: as above, but the next pixels() reports a change at
\* exactly the cells whose previous-frame pixel differs from pixel and is not,
\* like pixel, of alpha 0.
C12_Fill ==
    [][/\ IsStepOf("fill") =>
            /\ new_buf' = [i \in 1..Len(new_buf) |-> StepArg(2)]
            /\ UNCHANGED <<position, size, old_buf, scale_factor>>
       /\ (IsPixelsStep /\ NCalls >= 1 /\ Recent(0)[1] = "fill") =>
            /\ ChangedAt(ret')
                 = {CellPos(i) : i \in {j \in 0..(Len(old_buf) - 1) :
                        /\ old_buf[j + 1] # Recent(0)[2]
                        /\ ~(Recent(0)[2].a = 0 /\ old_buf[j + 1].a = 0)}}
            /\ Len(ret') = Cardinality(ChangedAt(ret'))]_vars

C12_Witness ==
    /\ NCalls = 4
    /\ calls[1] = <<"draw_pixel", Vis, ScreenPos(0, 0)>>
    /\ calls[2][1] = "pixels"
    /\ calls[3] = <<"fill", Vis>>
    /\ calls[4][1] = "pixels"
    /\ Len(ret) = Len(old_buf) - 1
    /\ position \notin ChangedAt(ret)

\* C13: scale(factor) sets scale_factor and changes nothing else: both
\* buffers, size and position stay as they are, so what was drawn before the
\* call keeps the extent it was drawn with.
C13_ScaleOnlySetsFactor ==
    [][IsStepOf("scale") =>
        /\ scale_factor' = StepArg(2)
        /\ UNCHANGED <<position, size, new_buf, old_buf, fault>>]_vars

C13_Witness ==
    /\ NCalls = 2
    /\ calls[1] = <<"draw_pixel", Vis, ScreenPos(0, 0)>>
    /\ calls[2] = <<"scale", 2>>
    /\ scale_factor = 2
    /\ VisibleCells(new_buf) = {0}

\* C14: a viewport built by new has scale_factor 1 and both buffers filled
\* with (0,0,0,0), and a pixels() made before any draw returns the empty list.
C14_NewIsErased ==
    /\ NCalls = 0 =>
          /\ scale_factor = 1
          /\ new_buf = [i \in 1..(size.width * size.height) |-> Pixel(0, 0, 0, 0)]
          /\ old_buf = [i \in 1..(size.width * size.height) |-> Pixel(0, 0, 0, 0)]
    /\ (\A k \in 1..NCalls : calls[k][1] \in {"pixels", "scale", "resize"}) => ret = <<>>

C14_Witness ==
    /\ NCalls = 1
    /\ calls[1][1] = "pixels"
    /\ ret = <<>>
    /\ scale_factor = 1

\* C16: every pixels() leaves old_buf equal to new_buf as it was before the
\* call and new_buf filled with (0,0,0,0), and does not change size, position
\* or scale_factor.
C16_SwapAndClear ==
    [][IsPixelsStep =>
        /\ old_buf' = new_buf
        /\ new_buf' = [i \in 1..Len(old_buf) |-> Pixel(0, 0, 0, 0)]
        /\ UNCHANGED <<position, size, scale_factor>>]_vars

C16_Witness ==
    /\ NCalls = 2
    /\ calls[1] = <<"fill", Vis>>
    /\ calls[2][1] = "pixels"
    /\ old_buf = [i \in 1..(size.width * size.height) |-> Vis]
    /\ new_buf = [i \in 1..(size.width * size.height) |-> Pixel(0, 0, 0, 0)]

\* the change pixels() is to report for index i: the new pixel if it is
\* visible, the erased pixel otherwise
ChangeFor(i) ==
    <<IF new_buf[i + 1].a > 0 THEN new_buf[i + 1] ELSE Pixel(0, 0, 0, 0), CellPos(i)>>

\* the indices at which the two buffers differ
Differing == {i \in 0..(Len(new_buf) - 1) : new_buf[i + 1] # old_buf[i + 1]}

\* the entries of a list
Entries(list) == {list[k] : k \in 1..Len(list)}

\* C17 as stated: pixels() never fails and returns exactly one change for
\* each index at which new_buf and old_buf differ and none for any other,
\* the pixel of the change being the new pixel if its a > 0 and (0,0,0,0)
\* otherwise.
C17_Original ==
    [][IsPixelsStep =>
        /\ ~fault'
        /\ Len(ret') = Cardinality(Differing)
        /\ Entries(ret') = {ChangeFor(i) : i \in Differing}]_vars

\* C17 as amended: as above for the indices at which the buffers differ and
\* at least one of the two pixels has a > 0; an index at which both pixels
\* have a = 0 gets no change whether they differ or not.
C17_DiffCompleteMinimal ==
    [][IsPixelsStep =>
        LET D == {i \in Differing : new_buf[i + 1].a > 0 \/ old_buf[i + 1].a > 0}
        IN  /\ ~fault'
            /\ Len(ret') = Cardinality(D)
            /\ Entries(ret') = {ChangeFor(i) : i \in D}]_vars

C17_Witness ==
    /\ NCalls = 4
    /\ calls[1] = <<"draw_pixel", Vis, ScreenPos(0, 0)>>
    /\ calls[2][1] = "pixels"
    /\ calls[3] = <<"draw_pixels", << <<White, ScreenPos(0, 0)>>, <<White, ScreenPos(1, 2)>> >> >>
    /\ calls[4][1] = "pixels"
    /\ size = ScreenSize(3, 4)
    /\ ret = << <<White, position>>,
                <<White, ScreenPos(position.x + 1, position.y + 2)>> >>

\* the pixels a call hands to the viewport
DrawnPixels(call) ==
    IF call[1] \in {"draw_pixel", "fill"} THEN {call[2]}
    ELSE IF call[1] = "draw_pixels" THEN {call[2][k][1] : k \in 1..Len(call[2])}
    ELSE {}

\* no call so far has drawn a pixel of alpha 0 other than (0,0,0,0)
SentinelKept ==
    \A k \in 1..NCalls : \A p \in DrawnPixels(calls[k]) : p.a = 0 => p = Pixel(0, 0, 0, 0)

\* an index at which both buffers hold a pixel of alpha 0
BothErased(i) == new_buf[i + 1].a = 0 /\ old_buf[i + 1].a = 0

\* C18 as stated: in every state reached by draw_pixel, draw_pixels, fill
\* with any pixel and pixels(), two pixels at the same index of new_buf and
\* old_buf that both have a = 0 are equal.
C18_Original ==
    \A i \in 0..(Len(new_buf) - 1) :
        (i < Len(old_buf) /\ BothErased(i)) => new_buf[i + 1] = old_buf[i + 1]

\* C18 as amended: the same holds in every state reached by calls that draw no
\* pixel of alpha 0 other than (0,0,0,0).
C18_ErasedPixelsEqual ==
    SentinelKept =>
        \A i \in 0..(Len(new_buf) - 1) :
            (i < Len(old_buf) /\ BothErased(i)) => new_buf[i + 1] = old_buf[i + 1]

C18_Witness ==
    /\ NCalls = 4
    /\ calls[1] = <<"fill", Vis>>
    /\ calls[2][1] = "pixels"
    /\ calls[3] = <<"fill", Pixel(0, 0, 0, 0)>>
    /\ calls[4][1] = "pixels"
    /\ BothErased(0)
    /\ new_buf[1] = old_buf[1]

\* call d draws a visible pixel at a cell in view that no other call draws
\* at: the other calls are pixels() or draw_pixel at another position
DrawnOnce(d) ==
    /\ calls[d][1] = "draw_pixel"
    /\ calls[d][2].a > 0
    /\ InsideView(calls[d][3])
    /\ \A j \in 1..NCalls :
          j # d => \/ calls[j][1] = "pixels"
                   \/ calls[j][1] = "draw_pixel" /\ calls[j][3] # calls[d][3]

\* the pixels() calls made after call d
FramesSince(d) == Cardinality({j \in (d + 1)..NCalls : calls[j][1] = "pixels"})

\* the changes of ret at the screen position of cell pos
ChangesAt(pos) == {k \in 1..Len(ret) : ret[k][2] = ScreenPos(pos.x + position.x, pos.y + position.y)}

\* C20: a visible pixel drawn once at an erased cell and not drawn again is
\* reported by the first pixels() after the draw as one change with that
\* pixel, by the second as one change with (0,0,0,0), and by no later one.
C20_PixelLifecycle ==
    \A d \in 1..NCalls :
        (DrawnOnce(d) /\ Recent(0)[1] = "pixels") =>
            LET at == ChangesAt(calls[d][3])
            IN  /\ FramesSince(d) = 1 =>
                     Cardinality(at) = 1 /\ \A k \in at : ret[k][1] = calls[d][2]
                /\ FramesSince(d) = 2 =>
                     Cardinality(at) = 1 /\ \A k \in at : ret[k][1] = Pixel(0, 0, 0, 0)
                /\ FramesSince(d) >= 3 => at = {}

C20_Witness ==
    /\ NCalls = 5
    /\ calls[1] = <<"draw_pixel", Vis, ScreenPos(1, 1)>>
    /\ calls[2][1] = "pixels"
    /\ calls[3] = <<"draw_pixel", Vis, ScreenPos(0, 0)>>
    /\ calls[4][1] = "pixels"
    /\ calls[5][1] = "pixels"
    /\ DrawnOnce(1)
    /\ FramesSince(1) = 3
    /\ Len(ret) = 1

\* the canvas sits at the origin and the renderer has its size
SinkAligned == position = ScreenPos(0, 0) /\ renderer.size = size

\* C19 as stated: with the viewport at (0,0) and a renderer of the viewport's
\* size, after every Renderer::draw the renderer's pixels equal old_buf, the
\* frame just drawn, cell for cell.
C19_Original ==
    [][(IsPixelsStep /\ SinkAligned) => renderer'.pixels = old_buf']_vars

\* C19 as amended: after every such Renderer::draw a cell of the renderer's
\* pixels equals the cell of old_buf if that has a > 0 and is (0,0,0,0) if
\* that has a = 0.
C19_SinkEquivalence ==
    [][(IsPixelsStep /\ SinkAligned) =>
        renderer'.pixels =
            [i \in 1..Len(old_buf') |->
                IF old_buf'[i].a > 0 THEN old_buf'[i] ELSE Pixel(0, 0, 0, 0)]]_vars

C19_Witness ==
    /\ NCalls = 4
    /\ calls[1] = <<"fill", Vis>>
    /\ calls[2][1] = "pixels"
    /\ calls[3] = <<"draw_pixel", Vis, ScreenPos(0, 1)>>
    /\ calls[4][1] = "pixels"
    /\ SinkAligned
    /\ size = ScreenSize(3, 4)
    /\ renderer.pixels = old_buf
    /\ VisibleCells(renderer.pixels) = {3}

\* the places of a name in the log of the iteration
Places(name) == {k \in 1..Len(tick_log) : tick_log[k] = name}

\* the iteration has delivered all its events
TickDone == phase = "redraw" /\ ~redraw_requested

\* C15: in every iteration of the loop of start, el.update and el.draw are
\* called exactly once each, el.draw after el.update, and renderer.render is
\* called exactly once and after el.draw has returned.
C15_SchedulerInvariant ==
    TickDone =>
        /\ Cardinality(Places("update")) = 1
        /\ Cardinality(Places("draw")) = 1
        /\ Cardinality(Places("render")) = 1
        /\ \A u \in Places("update") : \A d \in Places("draw") : u < d
        /\ \A d \in Places("draw") : \A r \in Places("render") : d < r

\* C21: in every list pixels() returns no screen position occurs twice, and
\* every position lies in the rectangle of the viewport: from position.x up
\* to position.x + size.width and from position.y up to position.y +
\* size.height, the upper ends excluded.
C21_PositionsWellFormed ==
    [][IsPixelsStep =>
        /\ \A j, k \in 1..Len(ret') : j # k => ret'[j][2] # ret'[k][2]
        /\ \A k \in 1..Len(ret') :
              /\ position.x <= ret'[k][2].x
              /\ ret'[k][2].x < position.x + size.width
              /\ position.y <= ret'[k][2].y
              /\ ret'[k][2].y < position.y + size.height]_vars

C21_Witness ==
    /\ NCalls = 2
    /\ calls[1] = <<"fill", Vis>>
    /\ calls[2][1] = "pixels"
    /\ position = ScreenPos(2, 3)
    /\ size = ScreenSize(3, 4)
    /\ Len(ret) = 12
    /\ ret[12][2] = ScreenPos(4, 6)

\* the column and the row of cell i of the renderer's pixels
RendererCell(i) == ScreenPos(i % renderer.size.width, i \div renderer.size.width)

\* C22: for any viewport position and size and any renderer size,
\* Renderer::draw stays inside its pixel buffer, and every change it gets is
\* dropped or stored in the cell at column pos.x and row pos.y: a cell that
\* gets a new pixel is the cell of a change with that pixel and the cell's
\* column and row.
C22_SinkWritePlacement ==
    [][IsPixelsStep =>
        /\ Len(renderer'.pixels) = Len(renderer.pixels)
        /\ \A i \in 0..(Len(renderer.pixels) - 1) :
              renderer'.pixels[i + 1] # renderer.pixels[i + 1] =>
                  \E k \in 1..Len(ret') :
                      /\ ret'[k][2] = RendererCell(i)
                      /\ ret'[k][1] = renderer'.pixels[i + 1]]_vars

\* the byte view has four bytes per pixel, the r, g, b and a of pixel i at
\* the places 4i, 4i+1, 4i+2 and 4i+3
ByteLayout ==
    LET view == as_bytes(buffer)
    IN  /\ Len(view) = 4 * Len(buffer)
        /\ \A i \in 0..(Len(buffer) - 1) :
              /\ view[4 * i + 1] = buffer[i + 1].r
              /\ view[4 * i + 2] = buffer[i + 1].g
              /\ view[4 * i + 3] = buffer[i + 1].b
              /\ view[4 * i + 4] = buffer[i + 1].a

\* C23: after any sequence of set_pixel, byte writes and zero() the byte
\* view of a PixelBuffer has length 4 * capacity and shows the channels of
\* pixel i at bytes 4i..4i+3; a byte write changes that byte of the view and
\* no other, a set_pixel changes the four bytes of its pixel and no other,
\* and zero() keeps the length and leaves every pixel (0,0,0,0).
C23_ByteView ==
    /\ []ByteLayout
    /\ [][/\ Len(buffer') = Len(buffer)
          /\ \A k \in 0..(4 * Len(buffer) - 1) : \A v \in ByteValues :
                Buffer_write_byte(k, v) =>
                    as_bytes(buffer') = [as_bytes(buffer) EXCEPT ![k + 1] = v]
          /\ \A i \in 0..(Len(buffer) - 1) : \A p \in PixelSet :
                Buffer_set_pixel(i, p) =>
                    \A k \in 1..(4 * Len(buffer)) :
                        as_bytes(buffer')[k] =
                            IF (k - 1) \div 4 = i
                            THEN <<p.r, p.g, p.b, p.a>>[((k - 1) % 4) + 1]
                            ELSE as_bytes(buffer)[k]
          /\ Buffer_zero =>
                /\ buffer' = [i \in 1..Len(buffer) |-> Pixel(0, 0, 0, 0)]
                /\ as_bytes(buffer') = [k \in 1..(4 * Len(buffer)) |-> 0]]_vars

C23_Witness ==
    /\ Len(buffer) = 2
    /\ buffer[1] = Vis
    /\ buffer[2] = Pixel(0, 0, 0, 255)
    /\ as_bytes(buffer) = <<10, 20, 30, 255, 0, 0, 0, 255>>

====
